---- MODULE Spec2Model ----
(***************************************************************************)
(* Malicious-URL detection service: the URL feature extractors of          *)
(* predict_service.py and data_processing.py, the /predict handler, the    *)
(* startup model load and the Kafka publisher of services.py.              *)
(*                                                                         *)
(* A Python str is a sequence of one-character strings.  A float is a      *)
(* fixed-point integer with 8 fractional bits.  A function that can raise  *)
(* returns [raised, error, value].                                         *)
(***************************************************************************)
EXTENDS Integers, Sequences, FiniteSets, TLC

VARIABLES
    MODEL,      \* predict_service.MODEL: None or the loaded booster
    started,    \* load_model_startup: "no", "ok" or "failed"
    req,        \* one record per predict_url call: its position and its locals
    pub,        \* one record per publish_prediction call
    topic,      \* messages delivered to PREDICTION_TOPIC
    xurl,       \* extractor specification: the input string
    xserving,   \* extractor specification: result of predict_service.extract_url_features
    xtraining,  \* extractor specification: result of data_processing.extract_url_features
    xvector     \* extractor specification: the row built from xserving by TRAIN_COLUMNS

vars == <<MODEL, started, req, pub, topic, xurl, xserving, xtraining, xvector>>

-----------------------------------------------------------------------------
(* Bounds *)

\* longest input of the extractor check, in tokens
MaxParts == 3
\* concurrent predict_url calls
NumRequests == 2
\* class indices the classifier may return are 0..MaxClassIndex
MaxClassIndex == 5
\* distinct model artifacts the startup handler may load
NumModels == 2
\* feature names missing from a mapping in the assembler check
MaxDropped == 1

-----------------------------------------------------------------------------
(* Python str operations *)

Digits == {"0", "1", "2", "3", "4", "5", "6", "7", "8", "9"}

AlphaLower == <<"a","b","c","d","e","f","g","h","i","j","k","l","m",
                "n","o","p","q","r","s","t","u","v","w","x","y","z">>

AlphaUpper == <<"A","B","C","D","E","F","G","H","I","J","K","L","M",
                "N","O","P","Q","R","S","T","U","V","W","X","Y","Z">>

Range(s) == {s[i] : i \in DOMAIN s}

Letters == Range(AlphaLower) \cup Range(AlphaUpper)

\* s[i] with Python's slice tolerance: "" past the end
CharAt(s, i) == IF i \in DOMAIN s THEN s[i] ELSE ""

\* s[i:] (1-based i)
From(s, i) == SubSeq(s, i, Len(s))

\* s[:i] exclusive of position i (1-based)
Before(s, i) == SubSeq(s, 1, i - 1)

\* str.find(c): first position of character c at or after start, 0 when absent
Find(s, c, start) ==
    LET hits == {i \in start..Len(s) : s[i] = c}
    IN  IF hits = {} THEN 0 ELSE CHOOSE i \in hits : \A j \in hits : i <= j

\* str.rfind(c): last position of character c, 0 when absent
RFind(s, c) ==
    LET hits == {i \in DOMAIN s : s[i] = c}
    IN  IF hits = {} THEN 0 ELSE CHOOSE i \in hits : \A j \in hits : i >= j

\* str.count(c) for a one-character c
Count(s, c) == Cardinality({i \in DOMAIN s : s[i] = c})

\* lit occurs in s at position i
LitAt(s, i, lit) ==
    /\ i >= 1
    /\ i + Len(lit) - 1 <= Len(s)
    /\ SubSeq(s, i, i + Len(lit) - 1) = lit

\* lit in s
Contains(s, lit) == \E i \in 1..(Len(s) + 1) : LitAt(s, i, lit)

\* str.startswith
StartsWith(s, lit) == LitAt(s, 1, lit)

\* the lower-case form of each upper-case letter
LowerTable ==
    [c \in Range(AlphaUpper) |->
        AlphaLower[CHOOSE i \in DOMAIN AlphaUpper : AlphaUpper[i] = c]]

LowerChar(c) == IF c \in DOMAIN LowerTable THEN LowerTable[c] ELSE c

\* str.lower
Lower(s) == [i \in DOMAIN s |-> LowerChar(s[i])]

\* str.partition(c)[0]
PartitionHead(s, c) == IF Find(s, c, 1) = 0 THEN s ELSE Before(s, Find(s, c, 1))

\* str.rpartition(c)[-1]
RPartitionTail(s, c) == IF RFind(s, c) = 0 THEN s ELSE From(s, RFind(s, c) + 1)

RECURSIVE RStrip(_, _)
\* str.rstrip(c)
RStrip(s, c) ==
    IF Len(s) > 0 /\ s[Len(s)] = c THEN RStrip(Before(s, Len(s)), c) ELSE s

RECURSIVE Split(_, _)
\* str.split(c): the pieces between occurrences of c
Split(s, c) ==
    IF Find(s, c, 1) = 0 THEN <<s>>
    ELSE <<Before(s, Find(s, c, 1))>> \o Split(From(s, Find(s, c, 1) + 1), c)

RECURSIVE Cat(_)
\* "".join(parts)
Cat(parts) == IF parts = <<>> THEN <<>> ELSE Head(parts) \o Cat(Tail(parts))

RECURSIVE SumOver(_, _)
\* sum(f[k] for k in S)
SumOver(f, S) ==
    IF S = {} THEN 0
    ELSE LET k == CHOOSE x \in S : TRUE IN f[k] + SumOver(f, S \ {k})

-----------------------------------------------------------------------------
(* math.log2 in fixed point, 8 fractional bits *)

RECURSIVE FloorLog2(_)
FloorLog2(k) == IF k < 2 THEN 0 ELSE 1 + FloorLog2(k \div 2)

RECURSIVE Pow2(_)
Pow2(e) == IF e = 0 THEN 1 ELSE 2 * Pow2(e - 1)

RECURSIVE Log2Frac(_, _)
\* the next `bits` fractional bits of log2 of the mantissa m (12 fractional bits)
Log2Frac(m, bits) ==
    IF bits = 0 THEN 0
    ELSE LET sq == (m * m) \div 4096
         IN  IF sq >= 8192
             THEN Pow2(bits - 1) + Log2Frac(sq \div 2, bits - 1)
             ELSE Log2Frac(sq, bits - 1)

Log2Q(k) ==
    FloorLog2(k) * 256 + Log2Frac((k * 4096) \div Pow2(FloorLog2(k)), 8)

-----------------------------------------------------------------------------
(* Results of functions that can raise *)

Returned(v) == [raised |-> FALSE, error |-> "", value |-> v]

Raised(e) == [raised |-> TRUE, error |-> e, value |-> <<>>]

-----------------------------------------------------------------------------
(* urllib.parse.urlparse, as called by both extractors *)

SchemeChars == Letters \cup Digits \cup {"+", "-", "."}

\* the scheme split of urlsplit: <<scheme, rest>>
SplitScheme(url) ==
    LET i == Find(url, ":", 1)
    IN  IF /\ i > 1
           /\ url[1] \in Letters
           /\ \A j \in 1..(i - 1) : url[j] \in SchemeChars
        THEN <<Lower(Before(url, i)), From(url, i + 1)>>
        ELSE <<<<>>, url>>

\* _splitnetloc(url, 2): the authority ends at the first of / ? #
NetlocEnd(rest) ==
    LET stops == {i \in 3..Len(rest) : rest[i] \in {"/", "?", "#"}}
    IN  IF stops = {} THEN Len(rest) + 1
        ELSE CHOOSE i \in stops : \A j \in stops : i <= j

Urlparse(url) ==
    LET sr      == SplitScheme(url)
        scheme  == sr[1]
        rest    == sr[2]
        hasAuth == StartsWith(rest, <<"/", "/">>)
        netloc  == IF hasAuth THEN SubSeq(rest, 3, NetlocEnd(rest) - 1) ELSE <<>>
        rest2   == IF hasAuth THEN From(rest, NetlocEnd(rest)) ELSE rest
        rest3   == PartitionHead(rest2, "#")
        \* the inputs hold no ";", no white space and no non-ASCII character:
        \* the params split and the NFKC check of urlparse do nothing on them
        qpos    == Find(rest3, "?", 1)
        path    == IF qpos = 0 THEN rest3 ELSE Before(rest3, qpos)
        query   == IF qpos = 0 THEN <<>> ELSE From(rest3, qpos + 1)
    IN  IF hasAuth /\ (("[" \in Range(netloc)) # ("]" \in Range(netloc)))
        THEN Raised("Invalid IPv6 URL")
        ELSE Returned([scheme |-> scheme, netloc |-> netloc,
                       path |-> path, query |-> query])

-----------------------------------------------------------------------------
(* tldextract.extract, as called by both extractors *)

\* the public suffixes the inputs can end in
PublicSuffixes == {<<<<"c","o","m">>>>,
                   <<<<"u","k">>>>,
                   <<<<"c","o">>, <<"u","k">>>>}

\* tldextract.remote._schemeless_url
SchemelessUrl(url) ==
    LET ds == IF Contains(url, <<"/", "/">>)
              THEN CHOOSE i \in 1..Len(url) :
                       /\ LitAt(url, i, <<"/", "/">>)
                       /\ \A j \in 1..(i - 1) : ~LitAt(url, j, <<"/", "/">>)
              ELSE 0
    IN  IF ds = 1 THEN From(url, 3)
        ELSE IF \/ ds < 3
                \/ url[ds - 1] # ":"
                \/ \E j \in 1..(ds - 2) : url[j] \notin SchemeChars
             THEN url
             ELSE From(url, ds + 2)

\* tldextract.remote.lenient_netloc
LenientNetloc(url) ==
    LET afterUserinfo ==
            RPartitionTail(
                PartitionHead(PartitionHead(PartitionHead(
                    SchemelessUrl(url), "/"), "?"), "#"), "@")
        close == Find(afterUserinfo, "]", 1)
    IN  IF CharAt(afterUserinfo, 1) = "[" /\ close # 0
        THEN SubSeq(afterUserinfo, 1, close)
        ELSE RStrip(PartitionHead(afterUserinfo, ":"), ".")

\* tldextract's suffix_index: where the longest public suffix of labels starts
\* (0-based, as in the library), len(labels) when there is none
SuffixIndex(labels) ==
    LET n    == Len(labels)
        hits == {i \in 0..(n - 1) : SubSeq(labels, i + 1, n) \in PublicSuffixes}
    IN  IF hits = {} THEN n ELSE CHOOSE i \in hits : \A j \in hits : i <= j

RECURSIVE DecimalValue(_)
\* int(s) for a string of digits
DecimalValue(s) ==
    IF s = <<>> THEN 0
    ELSE 10 * DecimalValue(Before(s, Len(s)))
         + (CHOOSE v \in 0..9 : ToString(v) = s[Len(s)])

\* tldextract.remote.looks_like_ip: four decimal octets
LooksLikeIp(host) ==
    LET labels == Split(host, ".")
    IN  /\ Len(labels) = 4
        /\ \A i \in 1..4 :
              /\ Len(labels[i]) \in 1..3
              /\ Range(labels[i]) \subseteq Digits
              /\ DecimalValue(labels[i]) <= 255

\* ext.subdomain of tldextract.extract(url), as its list of labels
Subdomain(url) ==
    LET netloc == LenientNetloc(url)
        labels == Split(netloc, ".")
        si     == SuffixIndex(labels)
    IN  IF CharAt(netloc, 1) = "[" /\ netloc[Len(netloc)] = "]" THEN <<>>
        ELSE IF si = Len(labels) /\ LooksLikeIp(netloc) THEN <<>>
        ELSE IF si >= 2 THEN SubSeq(labels, 1, si - 1)
        ELSE <<>>

\* len(ext.subdomain.split('.')) if ext.subdomain else 0
NumSubdomains(url) ==
    LET sub == Subdomain(url)
    IN  IF Cat(sub) = <<>> /\ Len(sub) <= 1 THEN 0 ELSE Len(sub)

-----------------------------------------------------------------------------
(* re.search(r'http[s]?://(?:\d{1,3}\.){3}\d{1,3}', url) *)

RECURSIVE IpGroups(_, _, _)
\* (?:\d{1,3}\.){k}\d{1,3} matches at position j
IpGroups(url, j, k) ==
    IF k = 0 THEN CharAt(url, j) \in Digits
    ELSE \E d \in 1..3 :
            /\ \A t \in 0..(d - 1) : CharAt(url, j + t) \in Digits
            /\ CharAt(url, j + d) = "."
            /\ IpGroups(url, j + d + 1, k - 1)

\* the whole pattern matches at position i
IpPatternAt(url, i) ==
    /\ LitAt(url, i, <<"h","t","t","p">>)
    /\ \/ LitAt(url, i + 4, <<":","/","/">>) /\ IpGroups(url, i + 7, 3)
       \/ LitAt(url, i + 4, <<"s",":","/","/">>) /\ IpGroups(url, i + 8, 3)

\* re.search: a match at any position
ReSearchIp(url) == \E i \in 1..(Len(url) + 1) : IpPatternAt(url, i)

-----------------------------------------------------------------------------
(* dict and pandas.Series: a sequence of <<label, value>> in insertion order *)

Keys(d) == {d[i][1] : i \in DOMAIN d}

KeyOrder(d) == [i \in DOMAIN d |-> d[i][1]]

\* d[k] for k in d
Lookup(d, k) == d[CHOOSE i \in DOMAIN d : d[i][1] = k][2]

\* d[k] = v
DictSet(d, k, v) ==
    IF k \in Keys(d)
    THEN [i \in DOMAIN d |-> IF d[i][1] = k THEN <<k, v>> ELSE d[i]]
    ELSE Append(d, <<k, v>>)

RECURSIVE DictSetAll(_, _)
\* a run of assignments d[k] = v, in order
DictSetAll(d, kvs) ==
    IF kvs = <<>> THEN d
    ELSE DictSetAll(DictSet(d, Head(kvs)[1], Head(kvs)[2]), Tail(kvs))

\* int(bool)
BoolInt(b) == IF b THEN 1 ELSE 0

-----------------------------------------------------------------------------
(* predict_service.py: TRAIN_COLUMNS, LABEL_MAPPING, the extractor *)

\* TRAIN_COLUMNS with one name misspelt ("num_subdomain")
TrainColumnsMisspelt ==
    << "url_length", "hostname_length", "path_length", "query_length",
       "num_dots", "num_hyphens", "num_at", "num_question_marks",
       "num_equals", "num_underscores", "num_ampersands", "num_digits",
       "has_https", "uses_ip", "num_subdomain",
       "has_login", "has_secure", "has_account", "has_update", "has_free",
       "has_lucky", "has_banking", "has_confirm",
       "has_port", "url_entropy" >>

TRAIN_COLUMNS ==
    << "url_length", "hostname_length", "path_length", "query_length",
       "num_dots", "num_hyphens", "num_at", "num_question_marks",
       "num_equals", "num_underscores", "num_ampersands", "num_digits",
       "has_https", "uses_ip", "num_subdomains",
       "has_login", "has_secure", "has_account", "has_update", "has_free",
       "has_lucky", "has_banking", "has_confirm",
       "has_port", "url_entropy" >>

\* the keys of LABEL_MAPPING
LabelKeys == {0, 1, 2, 3}

LABEL_MAPPING ==
    [i \in LabelKeys |->
        CASE i = 0 -> "benign" [] i = 1 -> "phishing"
          [] i = 2 -> "malware" [] i = 3 -> "defacement"]

\* collections.Counter(s)
Counter(s) == [c \in Range(s) |-> Count(s, c)]

\* count/lns * math.log2(count/lns)
EntropyTerm(count, lns) == -((count * (Log2Q(lns) - Log2Q(count))) \div lns)

shannon_entropy(s) ==
    LET p   == Counter(s)
        lns == Len(s)
    IN  -SumOver([c \in DOMAIN p |-> EntropyTerm(p[c], lns)], DOMAIN p)

\* the for loop over suspicious_keywords
suspicious_keywords ==
    << <<"has_login",   <<"l","o","g","i","n">> >>,
       <<"has_secure",  <<"s","e","c","u","r","e">> >>,
       <<"has_account", <<"a","c","c","o","u","n","t">> >>,
       <<"has_update",  <<"u","p","d","a","t","e">> >>,
       <<"has_free",    <<"f","r","e","e">> >>,
       <<"has_lucky",   <<"l","u","c","k","y">> >>,
       <<"has_banking", <<"b","a","n","k","i","n","g">> >>,
       <<"has_confirm", <<"c","o","n","f","i","r","m">> >> >>

KeywordFlags(url) ==
    [i \in DOMAIN suspicious_keywords |->
        <<suspicious_keywords[i][1],
          BoolInt(Contains(Lower(url), suspicious_keywords[i][2]))>>]

\* the assignments to features after parsing, in program order
FeatureAssignments(url, parsed) ==
    << <<"url_length", Len(url)>>,
       <<"hostname_length", Len(parsed.netloc)>>,
       <<"path_length", Len(parsed.path)>>,
       <<"query_length", Len(parsed.query)>>,
       <<"num_dots", Count(url, ".")>>,
       <<"num_hyphens", Count(url, "-")>>,
       <<"num_at", Count(url, "@")>>,
       <<"num_question_marks", Count(url, "?")>>,
       <<"num_equals", Count(url, "=")>>,
       <<"num_underscores", Count(url, "_")>>,
       <<"num_ampersands", Count(url, "&")>>,
       <<"num_digits", Cardinality({i \in DOMAIN url : url[i] \in Digits})>>,
       <<"has_https", BoolInt(StartsWith(Lower(url), <<"h","t","t","p","s">>))>>,
       <<"uses_ip", BoolInt(ReSearchIp(url))>>,
       <<"num_subdomains", NumSubdomains(url)>> >>
    \o KeywordFlags(url)
    \o << <<"has_port", BoolInt(":" \in Range(parsed.netloc))>>,
          <<"url_entropy", shannon_entropy(url)>> >>

extract_url_features(url) ==
    LET parsed == Urlparse(url)
    IN  IF parsed.raised THEN parsed
        ELSE Returned(DictSetAll(<<>>, FeatureAssignments(url, parsed.value)))

-----------------------------------------------------------------------------
(* data_processing.py: the extractor that produced the training data *)

\* count/lns * math.log2(count/lns)
dp_EntropyTerm(count, lns) == -((count * (Log2Q(lns) - Log2Q(count))) \div lns)

dp_shannon_entropy(s) ==
    LET p   == Counter(s)
        lns == Len(s)
    IN  -SumOver([c \in DOMAIN p |-> dp_EntropyTerm(p[c], lns)], DOMAIN p)

\* the for loop over suspicious_keywords
dp_suspicious_keywords ==
    << <<"has_login",   <<"l","o","g","i","n">> >>,
       <<"has_secure",  <<"s","e","c","u","r","e">> >>,
       <<"has_account", <<"a","c","c","o","u","n","t">> >>,
       <<"has_update",  <<"u","p","d","a","t","e">> >>,
       <<"has_free",    <<"f","r","e","e">> >>,
       <<"has_lucky",   <<"l","u","c","k","y">> >>,
       <<"has_banking", <<"b","a","n","k","i","n","g">> >>,
       <<"has_confirm", <<"c","o","n","f","i","r","m">> >> >>

\* the keyword test without .lower()
dp_KeywordFlagsCaseSensitive(url) ==
    [i \in DOMAIN dp_suspicious_keywords |->
        <<dp_suspicious_keywords[i][1],
          BoolInt(Contains(url, dp_suspicious_keywords[i][2]))>>]

dp_KeywordFlags(url) ==
    [i \in DOMAIN dp_suspicious_keywords |->
        <<dp_suspicious_keywords[i][1],
          BoolInt(Contains(Lower(url), dp_suspicious_keywords[i][2]))>>]

\* the assignments to features after parsing, in program order
dp_FeatureAssignments(url, parsed) ==
    << <<"url_length", Len(url)>>,
       <<"hostname_length", Len(parsed.netloc)>>,
       <<"path_length", Len(parsed.path)>>,
       <<"query_length", Len(parsed.query)>>,
       <<"num_dots", Count(url, ".")>>,
       <<"num_hyphens", Count(url, "-")>>,
       <<"num_at", Count(url, "@")>>,
       <<"num_question_marks", Count(url, "?")>>,
       <<"num_equals", Count(url, "=")>>,
       <<"num_underscores", Count(url, "_")>>,
       <<"num_ampersands", Count(url, "&")>>,
       <<"num_digits", Cardinality({i \in DOMAIN url : url[i] \in Digits})>>,
       <<"has_https", BoolInt(StartsWith(Lower(url), <<"h","t","t","p","s">>))>>,
       <<"uses_ip", BoolInt(ReSearchIp(url))>>,
       <<"num_subdomains", NumSubdomains(url)>> >>
    \o dp_KeywordFlags(url)
    \o << <<"has_port", BoolInt(":" \in Range(parsed.netloc))>>,
          <<"url_entropy", dp_shannon_entropy(url)>> >>

dp_extract_url_features(url) ==
    LET parsed == Urlparse(url)
    IN  IF parsed.raised THEN parsed
        ELSE Returned(DictSetAll(<<>>, dp_FeatureAssignments(url, parsed.value)))

-----------------------------------------------------------------------------
(* Inputs of the extractor specification: concatenations of at most MaxParts tokens *)

Tokens ==
    << <<"h","t","t","p",":","/","/">>,
       <<"h","t","t","p","s",":","/","/">>,
       <<"1",".","2",".","3",".","4">>,
       <<"a",".","b",".","e","x",".","c","o",".","u","k">>,
       <<"/","?","u","=">>,
       <<"[">>,
       <<":","8","0">>,
       <<"@">>,
       <<"/","L","o","g","i","n">>,
       <<"v","_","w","&","y","-","z">> >>

RECURSIVE TokenStrings(_)
\* every concatenation of exactly n tokens
TokenStrings(n) ==
    IF n = 0 THEN {<<>>}
    ELSE {s \o Tokens[t] : s \in TokenStrings(n - 1), t \in DOMAIN Tokens}

UrlInputs == UNION {TokenStrings(n) : n \in 0..MaxParts}

\* a result slot before its function has run
NotRun == [raised |-> FALSE, error |-> "not run", value |-> <<>>]

-----------------------------------------------------------------------------
(* predict_service.py: the model, the steps of predict_url *)

Reqs == 1..NumRequests

ModelIds == 1..NumModels

ClassIndices == 0..MaxClassIndex

\* MODEL = None
None == [loaded |-> FALSE, id |-> 0]

\* the booster load_bst_model returns for artifact m
Booster(m) == [loaded |-> TRUE, id |-> m]

\* the %XX escapes of the request URLs and the characters they stand for
PercentCodes == { <<"5", "B", "[">>, <<"5", "b", "[">>,
                  <<"2", "F", "/">>, <<"2", "f", "/">>,
                  <<"3", "F", "?">>, <<"3", "f", "?">>,
                  <<"3", "D", "=">>, <<"3", "d", "=">> }

RECURSIVE Unquote(_)
\* urllib.parse.unquote: a % with two hex digits becomes the character
Unquote(s) ==
    IF s = <<>> THEN <<>>
    ELSE IF s[1] = "%" /\ \E e \in PercentCodes : e[1] = CharAt(s, 2) /\ e[2] = CharAt(s, 3)
    THEN <<(CHOOSE e \in PercentCodes : e[1] = s[2] /\ e[2] = s[3])[3]>>
         \o Unquote(From(s, 4))
    ELSE <<s[1]>> \o Unquote(Tail(s))

\* Series.reindex semantics: a missing label gets a default value
SeriesSelectFillMissing(series, columns) ==
    Returned([i \in DOMAIN columns |->
                 <<columns[i],
                   IF columns[i] \in Keys(series) THEN Lookup(series, columns[i]) ELSE 0>>])

\* features[TRAIN_COLUMNS]: label-based selection, KeyError on a missing label
SeriesSelect(series, columns) ==
    IF \E i \in DOMAIN columns : columns[i] \notin Keys(series)
    THEN Raised("KeyError: not in index")
    ELSE Returned([i \in DOMAIN columns |->
                      <<columns[i], Lookup(series, columns[i])>>])

\* xgb.DMatrix(pd.DataFrame([features])): the single row of values
DMatrixRow(series) == [i \in DOMAIN series |-> series[i][2]]

\* int(MODEL.predict(dmatrix)[0]): a class index fixed by the booster and the row
Predict(booster, row) ==
    (booster.id + SumOver(row, DOMAIN row)) % (MaxClassIndex + 1)

\* LABEL_MAPPING.get(pred_class, "unknown")
Label(pred_class) ==
    IF pred_class \in DOMAIN LABEL_MAPPING THEN LABEL_MAPPING[pred_class]
    ELSE "unknown"

NoResponse == [status |-> 0, url |-> <<>>, predicted_class |-> "", detail |-> ""]

\* raise HTTPException(status_code=500, detail=...)
Http500(detail) ==
    [status |-> 500, url |-> <<>>, predicted_class |-> "", detail |-> detail]

\* return {"url": ..., "predicted_class": ...}
Http200(url, label) ==
    [status |-> 200, url |-> url, predicted_class |-> label, detail |-> ""]

\* the URLs requests carry, as the framework hands them to the handler
RequestUrls ==
    { Tokens[1] \o Tokens[3],
      Tokens[2] \o Tokens[4] \o Tokens[9] \o <<"%", "3", "F", "u", "%", "3", "D", "1">>,
      Tokens[4] \o Tokens[7],
      Tokens[1] \o <<"%", "5", "B">> }

IdleRequest ==
    [pc |-> "idle", url |-> <<>>, decoded_url |-> <<>>, features |-> <<>>,
     dmatrix |-> <<>>, pred_class |-> <<>>, response |-> NoResponse]

\* features kept in one module-level variable, here the slot of request 1
SharedFeatures(r) == req[1].features

\* the locals of request r, read by its later steps
LocalFeatures(r) == req[r].features

LocalDecodedUrl(r) == req[r].decoded_url

\* a step of request r leaves every other request alone
SetReq(r, new) == req' = [req EXCEPT ![r] = new]

\* the framework calls predict_url(url)
Arrive(r, u) ==
    /\ req[r].pc = "idle"
    /\ SetReq(r, [req[r] EXCEPT !.pc = "check", !.url = u])
    /\ UNCHANGED <<MODEL, started, pub, topic>>

\* a handler that loads the model itself when it finds none
CheckModelReloads(r) ==
    /\ req[r].pc = "check"
    /\ MODEL' = IF MODEL = None THEN Booster(1) ELSE MODEL
    /\ req' = [req EXCEPT ![r] = [req[r] EXCEPT !.pc = "unquote"]]
    /\ UNCHANGED <<started, pub, topic>>

\* a handler without the MODEL is None test
CheckModelUnguarded(r) ==
    /\ req[r].pc = "check"
    /\ req' = [req EXCEPT ![r] = [req[r] EXCEPT !.pc = "unquote"]]
    /\ UNCHANGED <<MODEL, started, pub, topic>>

\* if MODEL is None: raise HTTPException(500, "Model not loaded")
CheckModel(r) ==
    /\ req[r].pc = "check"
    /\ IF MODEL = None
       THEN SetReq(r, [req[r] EXCEPT !.pc = "done",
                                     !.response = Http500("Model not loaded")])
       ELSE SetReq(r, [req[r] EXCEPT !.pc = "unquote"])
    /\ UNCHANGED <<MODEL, started, pub, topic>>

\* decoded_url = unquote(url)
Decode(r) ==
    /\ req[r].pc = "unquote"
    /\ SetReq(r, [req[r] EXCEPT !.pc = "extract",
                                !.decoded_url = Unquote(req[r].url)])
    /\ UNCHANGED <<MODEL, started, pub, topic>>

\* extract_url_features on the decoded request URLs, evaluated once
ExtractedFeatures ==
    [u \in {Unquote(v) : v \in RequestUrls} |-> extract_url_features(u)]

\* features = extract_url_features(decoded_url), under except Exception
Extract(r) ==
    /\ req[r].pc = "extract"
    /\ LET res == ExtractedFeatures[LocalDecodedUrl(r)]
       IN  IF res.raised
           THEN SetReq(r, [req[r] EXCEPT !.pc = "done",
                                         !.response = Http500(res.error)])
           ELSE SetReq(r, [req[r] EXCEPT !.pc = "select", !.features = res.value])
    /\ UNCHANGED <<MODEL, started, pub, topic>>

\* features = features[TRAIN_COLUMNS]; dmatrix = xgb.DMatrix(...)
Select(r) ==
    /\ req[r].pc = "select"
    /\ LET res == SeriesSelect(LocalFeatures(r), TRAIN_COLUMNS)
       IN  IF res.raised
           THEN SetReq(r, [req[r] EXCEPT !.pc = "done",
                                         !.response = Http500(res.error)])
           ELSE SetReq(r, [req[r] EXCEPT !.pc = "predict",
                                         !.features = res.value,
                                         !.dmatrix = DMatrixRow(res.value)])
    /\ UNCHANGED <<MODEL, started, pub, topic>>

\* LABEL_MAPPING[pred_class] instead of .get: KeyError on an unmapped index
PredictAndReturnStrictLookup(r) ==
    /\ req[r].pc = "predict"
    /\ LET pred == Predict(MODEL, req[r].dmatrix)
       IN  req' = [req EXCEPT ![r] =
                     [req[r] EXCEPT
                        !.pc = "done",
                        !.pred_class = <<pred>>,
                        !.response = IF pred \in DOMAIN LABEL_MAPPING
                                     THEN Http200(req[r].decoded_url, LABEL_MAPPING[pred])
                                     ELSE Http500("KeyError")]]
    /\ UNCHANGED <<MODEL, started, pub, topic>>

\* pred_class = int(MODEL.predict(dmatrix)[0]); return the url and the label
PredictAndReturn(r) ==
    /\ req[r].pc = "predict"
    /\ LET pred == Predict(MODEL, req[r].dmatrix)
       IN  SetReq(r, [req[r] EXCEPT !.pc = "done",
                                    !.pred_class = <<pred>>,
                                    !.response = Http200(LocalDecodedUrl(r), Label(pred))])
    /\ UNCHANGED <<MODEL, started, pub, topic>>

\* the startup handler: download, extract and load, or raise
load_model_startup ==
    /\ started = "no"
    /\ \/ \E m \in ModelIds : MODEL' = Booster(m) /\ started' = "ok"
       \/ MODEL' = MODEL /\ started' = "failed"
    /\ UNCHANGED <<req, pub, topic>>

-----------------------------------------------------------------------------
(* services.py: publish_prediction *)

NotPublished == [outcome |-> "none", failed_at |-> "", prediction |-> NoResponse]

PublishSteps == {"get_producer", "send", "flush"}

\* producer = get_producer(); producer.send(...); producer.flush()
\* any of the three may raise, and nothing in the function catches it
publish_prediction(r, fails) ==
    /\ req[r].pc = "done"
    /\ req[r].response.status = 200
    /\ pub[r].outcome = "none"
    /\ IF fails \in PublishSteps
       THEN /\ pub' = [pub EXCEPT ![r] = [outcome |-> "raised", failed_at |-> fails,
                                          prediction |-> req[r].response]]
            /\ topic' = topic
       ELSE /\ pub' = [pub EXCEPT ![r] = [outcome |-> "returned", failed_at |-> "",
                                          prediction |-> req[r].response]]
            /\ topic' = topic \cup {req[r].response}
    /\ UNCHANGED <<MODEL, started, req>>

-----------------------------------------------------------------------------
(* The service *)

ServiceIdle ==
    /\ MODEL = None
    /\ started = "no"
    /\ req = [r \in Reqs |-> IdleRequest]
    /\ pub = [r \in Reqs |-> NotPublished]
    /\ topic = {}

ExtractorIdle ==
    xurl = <<>> /\ xserving = NotRun /\ xtraining = NotRun /\ xvector = NotRun

serviceVars == <<MODEL, started, req, pub, topic>>

checkVars == <<xurl, xserving, xtraining, xvector>>

Init == ServiceIdle /\ ExtractorIdle

Next ==
    \/ load_model_startup /\ UNCHANGED checkVars
    \/ \E r \in Reqs, u \in RequestUrls : Arrive(r, u) /\ UNCHANGED checkVars
    \/ \E r \in Reqs : CheckModel(r) /\ UNCHANGED checkVars
    \/ \E r \in Reqs : Decode(r) /\ UNCHANGED checkVars
    \/ \E r \in Reqs : Extract(r) /\ UNCHANGED checkVars
    \/ \E r \in Reqs : Select(r) /\ UNCHANGED checkVars
    \/ \E r \in Reqs : PredictAndReturn(r) /\ UNCHANGED checkVars
    \/ \E r \in Reqs, fails \in PublishSteps \cup {"nothing"} :
          publish_prediction(r, fails) /\ UNCHANGED checkVars

Spec == Init /\ [][Next]_vars

-----------------------------------------------------------------------------
(* The extractors as pure functions: every input, each extractor applied *)

\* predict_service.extract_url_features(xurl)
ServingExtract ==
    /\ xserving = NotRun
    /\ xserving' = extract_url_features(xurl)
    /\ UNCHANGED <<xurl, xtraining, xvector>>

\* data_processing.extract_url_features(xurl), on the same input
TrainingExtract ==
    /\ xserving # NotRun
    /\ xtraining = NotRun
    /\ xtraining' = dp_extract_url_features(xurl)
    /\ UNCHANGED <<xurl, xserving, xvector>>

\* features[TRAIN_COLUMNS] and the DMatrix row, on the serving extractor's result
AssembleVector ==
    /\ xtraining # NotRun
    /\ ~xserving.raised
    /\ xvector = NotRun
    /\ LET res == SeriesSelect(xserving.value, TRAIN_COLUMNS)
       IN  xvector' = IF res.raised THEN res ELSE Returned(DMatrixRow(res.value))
    /\ UNCHANGED <<xurl, xserving, xtraining>>

InitExtract ==
    /\ ServiceIdle
    /\ xurl \in UrlInputs
    /\ xserving = NotRun
    /\ xtraining = NotRun
    /\ xvector = NotRun

NextExtract ==
    \/ ServingExtract /\ UNCHANGED serviceVars
    \/ TrainingExtract /\ UNCHANGED serviceVars
    \/ AssembleVector /\ UNCHANGED serviceVars

SpecExtract == InitExtract /\ [][NextExtract]_vars

-----------------------------------------------------------------------------
(* The assembly and inference steps of predict_url on any feature mapping:  *)
(* request 1 stands after extraction with up to MaxDropped names missing.   *)

\* series without the entries at the positions in gone
Without(series, gone) ==
    LET keep == {i \in DOMAIN series : i \notin gone}
        F[n \in 0..Len(series)] ==
            IF n = 0 THEN <<>>
            ELSE IF n \in keep THEN Append(F[n - 1], series[n]) ELSE F[n - 1]
    IN  F[Len(series)]

\* the decoded request URLs on which extraction returns
ExtractableUrls == {u \in DOMAIN ExtractedFeatures : ~ExtractedFeatures[u].raised}

RECURSIVE PositionSets(_)
\* the sets of at most k positions of the mapping
PositionSets(k) ==
    IF k = 0 THEN {{}}
    ELSE PositionSets(k - 1)
         \cup {gone \cup {i} : gone \in PositionSets(k - 1), i \in DOMAIN TRAIN_COLUMNS}

DroppedSets == PositionSets(MaxDropped)

InitAssemble ==
    /\ \E m \in ModelIds : MODEL = Booster(m)
    /\ started = "ok"
    /\ \E u \in ExtractableUrls, gone \in DroppedSets :
          req = [r \in Reqs |->
                    IF r = 1
                    THEN [IdleRequest EXCEPT
                            !.pc = "select", !.url = u, !.decoded_url = u,
                            !.features = Without(ExtractedFeatures[u].value, gone)]
                    ELSE IdleRequest]
    /\ pub = [r \in Reqs |-> NotPublished]
    /\ topic = {}
    /\ ExtractorIdle

NextAssemble ==
    \/ \E r \in Reqs : Select(r) /\ UNCHANGED checkVars
    \/ \E r \in Reqs : PredictAndReturn(r) /\ UNCHANGED checkVars

SpecAssemble == InitAssemble /\ [][NextAssemble]_vars

-----------------------------------------------------------------------------
(* Properties *)

Ran(res) == res # NotRun

\* C1: for every input string, each extractor returns without raising and
\* the mapping it returns has exactly the 25 fixed feature names as its keys.
ExtractAlwaysReturnsAllFeatures ==
    \A res \in {xserving, xtraining} :
        Ran(res) =>
            /\ ~res.raised
            /\ Len(res.value) = 25
            /\ Keys(res.value) = Range(TRAIN_COLUMNS)

\* C2: when extraction succeeds, TRAIN_COLUMNS has no duplicates and is
\* exactly the extractor's key set, and the vector built by indexing the
\* features with TRAIN_COLUMNS has length 25 with the value of
\* TRAIN_COLUMNS[i] at position i.
VectorFollowsTrainColumns ==
    (Ran(xserving) /\ ~xserving.raised) =>
        /\ \A i, j \in DOMAIN TRAIN_COLUMNS :
              TRAIN_COLUMNS[i] = TRAIN_COLUMNS[j] => i = j
        /\ Range(TRAIN_COLUMNS) = Keys(xserving.value)
        /\ Ran(xvector) =>
              /\ ~xvector.raised
              /\ Len(xvector.value) = 25
              /\ \A i \in 1..25 :
                    xvector.value[i] = Lookup(xserving.value, TRAIN_COLUMNS[i])

\* a vector was built for a URL whose features are not all zero
VectorBuilt ==
    /\ Ran(xvector)
    /\ ~xvector.raised
    /\ Lookup(xserving.value, "uses_ip") = 1
    /\ Lookup(xserving.value, "has_port") = 1

\* C3: every class index the classifier returns gets a label: 0, 1, 2, 3 are
\* benign, phishing, malware, defacement, and any other index is "unknown",
\* with no error.
EveryClassIndexGetsALabel ==
    \A r \in Reqs :
        req[r].pred_class # <<>> =>
            LET index == req[r].pred_class[1]
            IN  /\ req[r].pc = "done"
                /\ req[r].response.status = 200
                /\ req[r].response.predicted_class =
                      CASE index = 0 -> "benign"
                        [] index = 1 -> "phishing"
                        [] index = 2 -> "malware"
                        [] index = 3 -> "defacement"
                        [] OTHER -> "unknown"

\* one request answered with a mapped label, another with "unknown"
MappedAndUnknownLabels ==
    \E r, q \in Reqs :
        /\ req[r].pred_class # <<>>
        /\ req[r].pred_class[1] \in LabelKeys
        /\ req[r].response.predicted_class # "unknown"
        /\ req[q].pred_class # <<>>
        /\ req[q].pred_class[1] \notin LabelKeys
        /\ req[q].response.predicted_class = "unknown"

\* C4: uses_ip is 1 exactly when the URL is http:// or https:// followed at
\* once by four dot-separated groups of 1 to 3 digits; an IP-shaped URL later
\* in the string does not set the flag.
UsesIpOnlyAtAuthorityStart ==
    \A res \in {xserving, xtraining} :
        (Ran(res) /\ ~res.raised) =>
            (Lookup(res.value, "uses_ip") = 1 <=> IpPatternAt(xurl, 1))

\* C5: a failure in publish_prediction (producer creation, send or flush) is
\* swallowed: the call returns to its caller, and the classification
\* response that was published stays the successful one.
PublishFailureSwallowed ==
    \A r \in Reqs :
        pub[r].outcome # "none" =>
            /\ pub[r].outcome = "returned"
            /\ req[r].response.status = 200
            /\ req[r].response = pub[r].prediction

\* C6: MODEL changes only in the startup handler's one successful run, from
\* None; no step of a request (or of a publish) changes it or runs a load.
ModelSetOnceByStartup ==
    [][/\ MODEL' # MODEL =>
            /\ MODEL = None
            /\ started = "no"
            /\ started' = "ok"
            /\ req' = req
       /\ started # "no" => started' = started]_vars

\* the model is loaded, one request has succeeded and another has failed
ModelServedRequests ==
    /\ MODEL # None
    /\ started = "ok"
    /\ \E r, q \in Reqs :
          /\ req[r].pc = "done" /\ req[r].response.status = 200
          /\ req[q].pc = "done" /\ req[q].response.status = 500

\* C7: a request that finds MODEL None fails with a 500 before any
\* extraction or inference, and a request that fails because extraction
\* raised gets a different outcome.
ModelNotLoadedFailsDistinctly ==
    [][\A r \in Reqs :
          /\ (req[r].pc = "check" /\ MODEL = None /\ req'[r] # req[r]) =>
                req'[r] = [req[r] EXCEPT !.pc = "done",
                                         !.response = Http500("Model not loaded")]
          /\ (req[r].pc = "extract" /\ req'[r].pc = "done") =>
                /\ req'[r].response.status = 500
                /\ req'[r].response # Http500("Model not loaded")]_vars

\* one request failed on the missing model, another on a URL urlparse rejects
BothFailureKinds ==
    \E r, q \in Reqs :
        /\ req[r].pc = "done"
        /\ req[r].response = Http500("Model not loaded")
        /\ req[r].features = <<>>
        /\ req[q].pc = "done"
        /\ req[q].response = Http500("Invalid IPv6 URL")

MissingColumn(series) == \E i \in DOMAIN TRAIN_COLUMNS : TRAIN_COLUMNS[i] \notin Keys(series)

\* C8: if a canonical column is absent from the feature mapping, the
\* assembly step ends the request in an internal error: no vector, filled
\* in or shortened, reaches the classifier and no label is returned.
MissingColumnAbortsRequest ==
    [][\A r \in Reqs :
          (/\ req[r].pc = "select"
           /\ MissingColumn(req[r].features)
           /\ req'[r] # req[r]) =>
                /\ req'[r].pc = "done"
                /\ req'[r].response.status = 500
                /\ req'[r].response.predicted_class = ""
                /\ req'[r].dmatrix = <<>>
                /\ req'[r].pred_class = <<>>]_vars

\* a request whose mapping lacked a column has been aborted
AbortedOnMissingColumn ==
    \E r \in Reqs :
        /\ req[r].pc = "done"
        /\ Len(req[r].features) = 24
        /\ MissingColumn(req[r].features)
        /\ req[r].response.status = 500

\* predict_url(u) run alone against booster m
SoloResponse(u, m) ==
    LET decoded == Unquote(u)
        ex      == extract_url_features(decoded)
        sel     == SeriesSelect(ex.value, TRAIN_COLUMNS)
    IN  IF ex.raised THEN Http500(ex.error)
        ELSE IF sel.raised THEN Http500(sel.error)
        ELSE Http200(decoded, Label(Predict(Booster(m), DMatrixRow(sel.value))))

SoloResponses == [u \in RequestUrls, m \in ModelIds |-> SoloResponse(u, m)]

\* C9: with the model loaded, whatever the interleaving, the response of
\* each request is the one it gets when run alone: it depends only on its
\* own URL and the loaded model.
RequestsDoNotInterfere ==
    \A r \in Reqs :
        (req[r].pc = "done" /\ req[r].response # Http500("Model not loaded")) =>
            /\ MODEL # None
            /\ req[r].response = SoloResponses[req[r].url, MODEL.id]

\* one request has answered while another, for a different URL, is mid-flight
OverlappingRequests ==
    \E r, q \in Reqs :
        /\ req[r].pc = "done"
        /\ req[r].response.status = 200
        /\ req[q].pc = "predict"
        /\ req[q].url # req[r].url

\* C10: the serving extractor and the data-processing extractor agree on
\* every input: the same names in the same insertion order with the same
\* values, or the same failure; the insertion order is that of TRAIN_COLUMNS.
ExtractorsAgree ==
    (Ran(xserving) /\ Ran(xtraining)) =>
        /\ xserving = xtraining
        /\ ~xserving.raised => KeyOrder(xserving.value) = TRAIN_COLUMNS

\* both extractors ran on a URL with an upper-case keyword and an IP host
BothExtractorsRan ==
    /\ Ran(xserving)
    /\ Ran(xtraining)
    /\ ~xserving.raised
    /\ Lookup(xserving.value, "has_login") = 1
    /\ Lookup(xtraining.value, "uses_ip") = 1

====
